---------------------------- MODULE Spec2Model ----------------------------
(***************************************************************************)
(* A model of the JPX pipeline (src/jpx_automated_pipeline.py): the        *)
(* extraction core, class AdaptiveJTMDExtractor, and the control flow of   *)
(* main and JPXDownloader.run_download around it.                          *)
(*                                                                         *)
(* Python values are represented as follows.                               *)
(*   str            a sequence of one-character strings ("" is << >>)      *)
(*   indicator code the sequence of its dot-separated components,          *)
(*                  "JTMD.ETF.SAL.PROP.M" = <<"JTMD","ETF","SAL","PROP","M">> *)
(*   dict           a function whose DOMAIN is the set of keys             *)
(*   list           a sequence; Python index k is TLA+ index k + 1         *)
(*   cell value     a record [kind, s, n]: NaN, None, a str or an int      *)
(***************************************************************************)
EXTENDS Integers, Sequences, FiniteSets, TLC

(***************************************************************************)
(* Bounds of the checked instances.                                        *)
(***************************************************************************)
\* most files the input directory holds in a run of Spec
MaxFiles == 2
\* most rows of a generated 'Value' sheet
MaxRows == 61
\* most columns of a generated 'Value' sheet
MaxCols == 7

(***************************************************************************)
(* Characters and Python's str methods.                                    *)
(***************************************************************************)
\* the characters of the model's strings, in code point order
CodePoints ==
  << "\t", "\n", " ", "-", ".", "0", "1", "2", "3", "4", "5", "6", "7", "8", "9",
     "A", "B", "C", "D", "E", "F", "G", "H", "I", "J", "K", "L", "M",
     "N", "O", "P", "Q", "R", "S", "T", "U", "V", "W", "X", "Y", "Z", "_",
     "a", "b", "c", "d", "e", "f", "g", "h", "i", "j", "k", "l", "m",
     "n", "o", "p", "q", "r", "s", "t", "u", "v", "w", "x", "y", "z" >>

Ord(ch) == CHOOSE k \in 1..Len(CodePoints) : CodePoints[k] = ch

Digits == <<"0", "1", "2", "3", "4", "5", "6", "7", "8", "9">>

IsDigit(ch) == \E k \in 1..Len(Digits) : Digits[k] = ch

Whitespace == {" ", "\t", "\n"}

UpperCase ==
  << "A", "B", "C", "D", "E", "F", "G", "H", "I", "J", "K", "L", "M",
     "N", "O", "P", "Q", "R", "S", "T", "U", "V", "W", "X", "Y", "Z" >>

LowerCase ==
  << "a", "b", "c", "d", "e", "f", "g", "h", "i", "j", "k", "l", "m",
     "n", "o", "p", "q", "r", "s", "t", "u", "v", "w", "x", "y", "z" >>

\* str.lower(), one character
LowerChar(ch) ==
  IF \E k \in 1..Len(UpperCase) : UpperCase[k] = ch
  THEN LowerCase[CHOOSE k \in 1..Len(UpperCase) : UpperCase[k] = ch]
  ELSE ch

\* str.lower()
Lower(s) == [k \in 1..Len(s) |-> LowerChar(s[k])]

RECURSIVE LStrip(_)
LStrip(s) ==
  IF s = << >> THEN s
  ELSE IF Head(s) \in Whitespace THEN LStrip(Tail(s)) ELSE s

RECURSIVE RStrip(_)
RStrip(s) ==
  IF s = << >> THEN s
  ELSE IF s[Len(s)] \in Whitespace THEN RStrip(SubSeq(s, 1, Len(s) - 1)) ELSE s

\* str.strip()
Strip(s) == RStrip(LStrip(s))

\* sub in s
Contains(s, sub) ==
  \E k \in 1..(Len(s) - Len(sub) + 1) : SubSeq(s, k, k + Len(sub) - 1) = sub

RECURSIVE NatToStr(_)
NatToStr(n) ==
  IF n < 10 THEN <<Digits[n + 1]>>
  ELSE NatToStr(n \div 10) \o <<Digits[(n % 10) + 1]>>

\* str(n) of an int
IntToStr(n) == IF n < 0 THEN <<"-">> \o NatToStr(0 - n) ELSE NatToStr(n)

\* s < t for str: the order sorted() uses
RECURSIVE StrLess(_, _)
StrLess(s, t) ==
  IF t = << >> THEN FALSE
  ELSE IF s = << >> THEN TRUE
  ELSE IF Head(s) = Head(t) THEN StrLess(Tail(s), Tail(t))
  ELSE Ord(Head(s)) < Ord(Head(t))

(***************************************************************************)
(* Cell values of a grid (the elements of df.values.tolist()).             *)
(***************************************************************************)
NaN == [kind |-> "nan", s |-> << >>, n |-> 0]

None == [kind |-> "none", s |-> << >>, n |-> 0]

StrCell(str) == [kind |-> "str", s |-> str, n |-> 0]

IntCell(i) == [kind |-> "int", s |-> << >>, n |-> i]

\* str(value)
Str(value) == IF value.kind = "int" THEN IntToStr(value.n) ELSE value.s

(***************************************************************************)
(* The static tables of AdaptiveJTMDExtractor.                             *)
(***************************************************************************)
column_mapping ==
  << [code |-> <<"JTMD", "ETF", "BAL", "PROP", "M">>, desc |-> "ETF, Balance, Proprietary"],
     [code |-> <<"JTMD", "ETF", "BAL", "BROKER", "M">>, desc |-> "ETF, Balance, Brokerage"],
     [code |-> <<"JTMD", "ETF", "BAL", "TOT", "M">>, desc |-> "ETF, Balance, Total"],
     [code |-> <<"JTMD", "ETF", "BAL", "INST", "M">>, desc |-> "ETF, Balance, Institutions"],
     [code |-> <<"JTMD", "ETF", "BAL", "INDIV", "M">>, desc |-> "ETF, Balance, Individuals"],
     [code |-> <<"JTMD", "ETF", "BAL", "FOR", "M">>, desc |-> "ETF, Balance, Foreigners"],
     [code |-> <<"JTMD", "ETF", "BAL", "SECCOS", "M">>, desc |-> "ETF, Balance, Securities Cos."],
     [code |-> <<"JTMD", "ETF", "BAL", "INVTRUST", "M">>, desc |-> "ETF, Balance, Investment Trusts"],
     [code |-> <<"JTMD", "ETF", "BAL", "BUSCORP", "M">>, desc |-> "ETF, Balance, Business Cos."],
     [code |-> <<"JTMD", "ETF", "BAL", "OTHINST", "M">>, desc |-> "ETF, Balance, Other Cos."],
     [code |-> <<"JTMD", "ETF", "BAL", "INSTFIN", "M">>, desc |-> "ETF, Balance, Financial Institutions"],
     [code |-> <<"JTMD", "ETF", "BAL", "INS", "M">>, desc |-> "ETF, Balance, Life/Non-Life Insurance"],
     [code |-> <<"JTMD", "ETF", "BAL", "BK", "M">>, desc |-> "ETF, Balance, Banks"],
     [code |-> <<"JTMD", "ETF", "BAL", "OTHERFIN", "M">>, desc |-> "ETF, Balance, Other Financials"],
     [code |-> <<"JTMD", "ETF", "SAL", "PROP", "M">>, desc |-> "ETF, Sales, Proprietary"],
     [code |-> <<"JTMD", "ETF", "SAL", "BROKER", "M">>, desc |-> "ETF, Sales, Brokerage"],
     [code |-> <<"JTMD", "ETF", "SAL", "TOT", "M">>, desc |-> "ETF, Sales, Total"],
     [code |-> <<"JTMD", "ETF", "SAL", "INST", "M">>, desc |-> "ETF, Sales, Institutions"],
     [code |-> <<"JTMD", "ETF", "SAL", "INDIV", "M">>, desc |-> "ETF, Sales, Individuals"],
     [code |-> <<"JTMD", "ETF", "SAL", "FOR", "M">>, desc |-> "ETF, Sales, Foreigners"],
     [code |-> <<"JTMD", "ETF", "SAL", "SECCOS", "M">>, desc |-> "ETF, Sales, Securities Cos."],
     [code |-> <<"JTMD", "ETF", "SAL", "INVTRUST", "M">>, desc |-> "ETF, Sales, Investment Trusts"],
     [code |-> <<"JTMD", "ETF", "SAL", "BUSCORP", "M">>, desc |-> "ETF, Sales, Business Cos."],
     [code |-> <<"JTMD", "ETF", "SAL", "OTHINST", "M">>, desc |-> "ETF, Sales, Other Cos."],
     [code |-> <<"JTMD", "ETF", "SAL", "INSTFIN", "M">>, desc |-> "ETF, Sales, Financial Institutions"],
     [code |-> <<"JTMD", "ETF", "SAL", "INS", "M">>, desc |-> "ETF, Sales, Life/Non-Life Insurance"],
     [code |-> <<"JTMD", "ETF", "SAL", "BK", "M">>, desc |-> "ETF, Sales, Banks"],
     [code |-> <<"JTMD", "ETF", "SAL", "OTHERFIN", "M">>, desc |-> "ETF, Sales, Other Financials"],
     [code |-> <<"JTMD", "ETF", "PURCH", "PROP", "M">>, desc |-> "ETF, Purchases, Proprietary"],
     [code |-> <<"JTMD", "ETF", "PURCH", "BROKER", "M">>, desc |-> "ETF, Purchases, Brokerage"],
     [code |-> <<"JTMD", "ETF", "PURCH", "TOT", "M">>, desc |-> "ETF, Purchases, Total"],
     [code |-> <<"JTMD", "ETF", "PURCH", "INST", "M">>, desc |-> "ETF, Purchases, Institutions"],
     [code |-> <<"JTMD", "ETF", "PURCH", "INDIV", "M">>, desc |-> "ETF, Purchases, Individuals"],
     [code |-> <<"JTMD", "ETF", "PURCH", "FOR", "M">>, desc |-> "ETF, Purchases, Foreigners"],
     [code |-> <<"JTMD", "ETF", "PURCH", "SECCOS", "M">>, desc |-> "ETF, Purchases, Securities Cos."],
     [code |-> <<"JTMD", "ETF", "PURCH", "INVTRUST", "M">>, desc |-> "ETF, Purchases, Investment Trusts"],
     [code |-> <<"JTMD", "ETF", "PURCH", "BUSCORP", "M">>, desc |-> "ETF, Purchases, Business Cos."],
     [code |-> <<"JTMD", "ETF", "PURCH", "OTHINST", "M">>, desc |-> "ETF, Purchases, Other Cos."],
     [code |-> <<"JTMD", "ETF", "PURCH", "INSTFIN", "M">>, desc |-> "ETF, Purchases, Financial Institutions"],
     [code |-> <<"JTMD", "ETF", "PURCH", "INS", "M">>, desc |-> "ETF, Purchases, Life/Non-Life Insurance"],
     [code |-> <<"JTMD", "ETF", "PURCH", "BK", "M">>, desc |-> "ETF, Purchases, Banks"],
     [code |-> <<"JTMD", "ETF", "PURCH", "OTHERFIN", "M">>, desc |-> "ETF, Purchases, Other Financials"],
     [code |-> <<"JTMD", "REIT", "BAL", "PROP", "M">>, desc |-> "REIT, Balance, Proprietary"],
     [code |-> <<"JTMD", "REIT", "BAL", "BROKER", "M">>, desc |-> "REIT, Balance, Brokerage"],
     [code |-> <<"JTMD", "REIT", "BAL", "TOT", "M">>, desc |-> "REIT, Balance, Total"],
     [code |-> <<"JTMD", "REIT", "BAL", "INST", "M">>, desc |-> "REIT, Balance, Institutions"],
     [code |-> <<"JTMD", "REIT", "BAL", "INDIV", "M">>, desc |-> "REIT, Balance, Individuals"],
     [code |-> <<"JTMD", "REIT", "BAL", "FOR", "M">>, desc |-> "REIT, Balance, Foreigners"],
     [code |-> <<"JTMD", "REIT", "BAL", "SECCOS", "M">>, desc |-> "REIT, Balance, Securities Cos."],
     [code |-> <<"JTMD", "REIT", "BAL", "INVTRUST", "M">>, desc |-> "REIT, Balance, Investment Trusts"],
     [code |-> <<"JTMD", "REIT", "BAL", "BUSCORP", "M">>, desc |-> "REIT, Balance, Business Cos."],
     [code |-> <<"JTMD", "REIT", "BAL", "OTHINST", "M">>, desc |-> "REIT, Balance, Other Cos."],
     [code |-> <<"JTMD", "REIT", "BAL", "INSTFIN", "M">>, desc |-> "REIT, Balance, Financial Institutions"],
     [code |-> <<"JTMD", "REIT", "BAL", "INS", "M">>, desc |-> "REIT, Balance, Life/Non-Life Insurance"],
     [code |-> <<"JTMD", "REIT", "BAL", "BK", "M">>, desc |-> "REIT, Balance, Banks"],
     [code |-> <<"JTMD", "REIT", "BAL", "OTHERFIN", "M">>, desc |-> "REIT, Balance, Other Financials"],
     [code |-> <<"JTMD", "REIT", "SAL", "PROP", "M">>, desc |-> "REIT, Sales, Proprietary"],
     [code |-> <<"JTMD", "REIT", "SAL", "BROKER", "M">>, desc |-> "REIT, Sales, Brokerage"],
     [code |-> <<"JTMD", "REIT", "SAL", "TOT", "M">>, desc |-> "REIT, Sales, Total"],
     [code |-> <<"JTMD", "REIT", "SAL", "INST", "M">>, desc |-> "REIT, Sales, Institutions"],
     [code |-> <<"JTMD", "REIT", "SAL", "INDIV", "M">>, desc |-> "REIT, Sales, Individuals"],
     [code |-> <<"JTMD", "REIT", "SAL", "FOR", "M">>, desc |-> "REIT, Sales, Foreigners"],
     [code |-> <<"JTMD", "REIT", "SAL", "SECCOS", "M">>, desc |-> "REIT, Sales, Securities Cos."],
     [code |-> <<"JTMD", "REIT", "SAL", "INVTRUST", "M">>, desc |-> "REIT, Sales, Investment Trusts"],
     [code |-> <<"JTMD", "REIT", "SAL", "BUSCORP", "M">>, desc |-> "REIT, Sales, Business Cos."],
     [code |-> <<"JTMD", "REIT", "SAL", "OTHINST", "M">>, desc |-> "REIT, Sales, Other Cos."],
     [code |-> <<"JTMD", "REIT", "SAL", "INSTFIN", "M">>, desc |-> "REIT, Sales, Financial Institutions"],
     [code |-> <<"JTMD", "REIT", "SAL", "INS", "M">>, desc |-> "REIT, Sales, Life/Non-Life Insurance"],
     [code |-> <<"JTMD", "REIT", "SAL", "BK", "M">>, desc |-> "REIT, Sales, Banks"],
     [code |-> <<"JTMD", "REIT", "SAL", "OTHERFIN", "M">>, desc |-> "REIT, Sales, Other Financials"],
     [code |-> <<"JTMD", "REIT", "PURCH", "PROP", "M">>, desc |-> "REIT, Purchases, Proprietary"],
     [code |-> <<"JTMD", "REIT", "PURCH", "BROKER", "M">>, desc |-> "REIT, Purchases, Brokerage"],
     [code |-> <<"JTMD", "REIT", "PURCH", "TOT", "M">>, desc |-> "REIT, Purchases, Total"],
     [code |-> <<"JTMD", "REIT", "PURCH", "INST", "M">>, desc |-> "REIT, Purchases, Institutions"],
     [code |-> <<"JTMD", "REIT", "PURCH", "INDIV", "M">>, desc |-> "REIT, Purchases, Individuals"],
     [code |-> <<"JTMD", "REIT", "PURCH", "FOR", "M">>, desc |-> "REIT, Purchases, Foreigners"],
     [code |-> <<"JTMD", "REIT", "PURCH", "SECCOS", "M">>, desc |-> "REIT, Purchases, Securities Cos."],
     [code |-> <<"JTMD", "REIT", "PURCH", "INVTRUST", "M">>, desc |-> "REIT, Purchases, Investment Trusts"],
     [code |-> <<"JTMD", "REIT", "PURCH", "BUSCORP", "M">>, desc |-> "REIT, Purchases, Business Cos."],
     [code |-> <<"JTMD", "REIT", "PURCH", "OTHINST", "M">>, desc |-> "REIT, Purchases, Other Cos."],
     [code |-> <<"JTMD", "REIT", "PURCH", "INSTFIN", "M">>, desc |-> "REIT, Purchases, Financial Institutions"],
     [code |-> <<"JTMD", "REIT", "PURCH", "INS", "M">>, desc |-> "REIT, Purchases, Life/Non-Life Insurance"],
     [code |-> <<"JTMD", "REIT", "PURCH", "BK", "M">>, desc |-> "REIT, Purchases, Banks"],
     [code |-> <<"JTMD", "REIT", "PURCH", "OTHERFIN", "M">>, desc |-> "REIT, Purchases, Other Financials"] >>

category_structure ==
  << [key |-> "PROP", base_row |-> 13, search_offsets |-> <<0, 1, 2>>],
     [key |-> "BROKER", base_row |-> 16, search_offsets |-> <<0, 1, 2>>],
     [key |-> "TOT", base_row |-> 19, search_offsets |-> <<0, 1, 2>>],
     [key |-> "INST", base_row |-> 24, search_offsets |-> <<0, 1, 2>>],
     [key |-> "INDIV", base_row |-> 27, search_offsets |-> <<0, 1, 2>>],
     [key |-> "FOR", base_row |-> 30, search_offsets |-> <<0, 1, 2>>],
     [key |-> "SECCOS", base_row |-> 33, search_offsets |-> <<0, 1, 2>>],
     [key |-> "INVTRUST", base_row |-> 38, search_offsets |-> <<0, 1, 2>>],
     [key |-> "BUSCORP", base_row |-> 41, search_offsets |-> <<0, 1, 2>>],
     [key |-> "OTHINST", base_row |-> 44, search_offsets |-> <<0, 1, 2>>],
     [key |-> "INSTFIN", base_row |-> 47, search_offsets |-> <<0, 1, 2>>],
     [key |-> "INS", base_row |-> 52, search_offsets |-> <<0, 1, 2>>],
     [key |-> "BK", base_row |-> 55, search_offsets |-> <<0, 1, 2>>],
     [key |-> "OTHERFIN", base_row |-> 58, search_offsets |-> <<0, 1, 2>>] >>

fixed_mappings ==
  << [code |-> <<"JTMD", "ETF", "SAL", "PROP", "M">>, row |-> 13, col |-> 4],
     [code |-> <<"JTMD", "ETF", "PURCH", "PROP", "M">>, row |-> 14, col |-> 4],
     [code |-> <<"JTMD", "ETF", "SAL", "BROKER", "M">>, row |-> 16, col |-> 4],
     [code |-> <<"JTMD", "ETF", "PURCH", "BROKER", "M">>, row |-> 17, col |-> 4],
     [code |-> <<"JTMD", "ETF", "SAL", "TOT", "M">>, row |-> 19, col |-> 4],
     [code |-> <<"JTMD", "ETF", "PURCH", "TOT", "M">>, row |-> 20, col |-> 4],
     [code |-> <<"JTMD", "ETF", "SAL", "INST", "M">>, row |-> 24, col |-> 4],
     [code |-> <<"JTMD", "ETF", "PURCH", "INST", "M">>, row |-> 25, col |-> 4],
     [code |-> <<"JTMD", "ETF", "SAL", "INDIV", "M">>, row |-> 27, col |-> 4],
     [code |-> <<"JTMD", "ETF", "PURCH", "INDIV", "M">>, row |-> 28, col |-> 4],
     [code |-> <<"JTMD", "ETF", "SAL", "FOR", "M">>, row |-> 30, col |-> 4],
     [code |-> <<"JTMD", "ETF", "PURCH", "FOR", "M">>, row |-> 31, col |-> 4],
     [code |-> <<"JTMD", "ETF", "SAL", "SECCOS", "M">>, row |-> 33, col |-> 4],
     [code |-> <<"JTMD", "ETF", "PURCH", "SECCOS", "M">>, row |-> 34, col |-> 4],
     [code |-> <<"JTMD", "ETF", "SAL", "INVTRUST", "M">>, row |-> 38, col |-> 4],
     [code |-> <<"JTMD", "ETF", "PURCH", "INVTRUST", "M">>, row |-> 39, col |-> 4],
     [code |-> <<"JTMD", "ETF", "SAL", "BUSCORP", "M">>, row |-> 41, col |-> 4],
     [code |-> <<"JTMD", "ETF", "PURCH", "BUSCORP", "M">>, row |-> 42, col |-> 4],
     [code |-> <<"JTMD", "ETF", "SAL", "OTHINST", "M">>, row |-> 44, col |-> 4],
     [code |-> <<"JTMD", "ETF", "PURCH", "OTHINST", "M">>, row |-> 45, col |-> 4],
     [code |-> <<"JTMD", "ETF", "SAL", "INSTFIN", "M">>, row |-> 47, col |-> 4],
     [code |-> <<"JTMD", "ETF", "PURCH", "INSTFIN", "M">>, row |-> 48, col |-> 4],
     [code |-> <<"JTMD", "ETF", "SAL", "INS", "M">>, row |-> 52, col |-> 4],
     [code |-> <<"JTMD", "ETF", "PURCH", "INS", "M">>, row |-> 53, col |-> 4],
     [code |-> <<"JTMD", "ETF", "SAL", "BK", "M">>, row |-> 55, col |-> 4],
     [code |-> <<"JTMD", "ETF", "PURCH", "BK", "M">>, row |-> 56, col |-> 4],
     [code |-> <<"JTMD", "ETF", "SAL", "OTHERFIN", "M">>, row |-> 58, col |-> 4],
     [code |-> <<"JTMD", "ETF", "PURCH", "OTHERFIN", "M">>, row |-> 59, col |-> 4],
     [code |-> <<"JTMD", "REIT", "SAL", "PROP", "M">>, row |-> 13, col |-> 4],
     [code |-> <<"JTMD", "REIT", "PURCH", "PROP", "M">>, row |-> 14, col |-> 4],
     [code |-> <<"JTMD", "REIT", "SAL", "BROKER", "M">>, row |-> 16, col |-> 4],
     [code |-> <<"JTMD", "REIT", "PURCH", "BROKER", "M">>, row |-> 17, col |-> 4],
     [code |-> <<"JTMD", "REIT", "SAL", "TOT", "M">>, row |-> 19, col |-> 4],
     [code |-> <<"JTMD", "REIT", "PURCH", "TOT", "M">>, row |-> 20, col |-> 4],
     [code |-> <<"JTMD", "REIT", "SAL", "INST", "M">>, row |-> 24, col |-> 4],
     [code |-> <<"JTMD", "REIT", "PURCH", "INST", "M">>, row |-> 25, col |-> 4],
     [code |-> <<"JTMD", "REIT", "SAL", "INDIV", "M">>, row |-> 27, col |-> 4],
     [code |-> <<"JTMD", "REIT", "PURCH", "INDIV", "M">>, row |-> 28, col |-> 4],
     [code |-> <<"JTMD", "REIT", "SAL", "FOR", "M">>, row |-> 30, col |-> 4],
     [code |-> <<"JTMD", "REIT", "PURCH", "FOR", "M">>, row |-> 31, col |-> 4],
     [code |-> <<"JTMD", "REIT", "SAL", "SECCOS", "M">>, row |-> 33, col |-> 4],
     [code |-> <<"JTMD", "REIT", "PURCH", "SECCOS", "M">>, row |-> 34, col |-> 4],
     [code |-> <<"JTMD", "REIT", "SAL", "INVTRUST", "M">>, row |-> 38, col |-> 4],
     [code |-> <<"JTMD", "REIT", "PURCH", "INVTRUST", "M">>, row |-> 39, col |-> 4],
     [code |-> <<"JTMD", "REIT", "SAL", "BUSCORP", "M">>, row |-> 41, col |-> 4],
     [code |-> <<"JTMD", "REIT", "PURCH", "BUSCORP", "M">>, row |-> 42, col |-> 4],
     [code |-> <<"JTMD", "REIT", "SAL", "OTHINST", "M">>, row |-> 44, col |-> 4],
     [code |-> <<"JTMD", "REIT", "PURCH", "OTHINST", "M">>, row |-> 45, col |-> 4],
     [code |-> <<"JTMD", "REIT", "SAL", "INSTFIN", "M">>, row |-> 47, col |-> 4],
     [code |-> <<"JTMD", "REIT", "PURCH", "INSTFIN", "M">>, row |-> 48, col |-> 4],
     [code |-> <<"JTMD", "REIT", "SAL", "INS", "M">>, row |-> 52, col |-> 4],
     [code |-> <<"JTMD", "REIT", "PURCH", "INS", "M">>, row |-> 53, col |-> 4],
     [code |-> <<"JTMD", "REIT", "SAL", "BK", "M">>, row |-> 55, col |-> 4],
     [code |-> <<"JTMD", "REIT", "PURCH", "BK", "M">>, row |-> 56, col |-> 4],
     [code |-> <<"JTMD", "REIT", "SAL", "OTHERFIN", "M">>, row |-> 58, col |-> 4],
     [code |-> <<"JTMD", "REIT", "PURCH", "OTHERFIN", "M">>, row |-> 59, col |-> 4] >>

\* a dict with no key
EmptyDict == << >>

\* dict.update: d with every key of e set to e's value
Update(d, e) ==
  [k \in (DOMAIN d) \cup (DOMAIN e) |-> IF k \in DOMAIN e THEN e[k] ELSE d[k]]


(***************************************************************************)
(* AdaptiveJTMDExtractor: the per-file extraction.                         *)
(***************************************************************************)
\* _extract_period_from_filename: the start (1-based) of the leftmost match of
\* m(\d{2})(\d{2}) in s at or after k, or 0 when there is none
RECURSIVE RegexSearch(_, _)
RegexSearch(s, k) ==
  IF k + 4 > Len(s) THEN 0
  ELSE IF /\ s[k] = "m"
          /\ IsDigit(s[k + 1]) /\ IsDigit(s[k + 2])
          /\ IsDigit(s[k + 3]) /\ IsDigit(s[k + 4])
       THEN k
       ELSE RegexSearch(s, k + 1)

\* extract_period_from_filename with re.match for re.search: the token is
\* looked for at the start of the name only
extract_period_match_at_start(filename, today) ==
  LET low == Lower(filename)
      at == IF RegexSearch(low, 1) = 1 THEN 1 ELSE 0
  IN  IF at # 0
      THEN [period |-> <<"2", "0", low[at + 1], low[at + 2], "-", low[at + 3], low[at + 4]>>,
            warned |-> FALSE]
      ELSE [period |-> today, warned |-> TRUE]

\* _extract_period_from_filename: the period, and whether the warning is logged
extract_period_from_filename(filename, today) ==
  LET low == Lower(filename)
      at == RegexSearch(low, 1)
  IN  IF at # 0
      THEN [period |-> <<"2", "0", low[at + 1], low[at + 2], "-", low[at + 3], low[at + 4]>>,
            warned |-> FALSE]
      ELSE [period |-> today, warned |-> TRUE]

\* preserve_number_formatting testing the raw value, not the stripped one
preserve_number_formatting_unstripped(value) ==
  IF value.kind \in {"nan", "none"} \/ (value.kind = "str" /\ value.s = << >>)
  THEN << >>
  ELSE Str(value)

preserve_number_formatting(value) ==
  IF value.kind \in {"nan", "none"} \/ (value.kind = "str" /\ value.s = << >>)
  THEN << >>
  ELSE Strip(Str(value))

\* self.category_structure[category_key]
CategoryInfo(category_key) ==
  category_structure[CHOOSE k \in 1..Len(category_structure) :
                        category_structure[k].key = category_key]

\* ProbeOffsets returning the last non-empty row of the window, not the first
RECURSIVE ProbeOffsetsLast(_, _, _, _)
ProbeOffsetsLast(data_rows, category_info, balance_column_code, k) ==
  IF k > Len(category_info.search_offsets) THEN << >>
  ELSE LET later == ProbeOffsetsLast(data_rows, category_info, balance_column_code, k + 1)
           test_row == category_info.base_row + category_info.search_offsets[k]
       IN  IF later # << >> THEN later
           ELSE IF test_row < Len(data_rows) /\ Len(data_rows[test_row + 1]) > 6
                THEN LET formatted_value == preserve_number_formatting(data_rows[test_row + 1][6 + 1])
                     IN  IF formatted_value # << >>
                         THEN <<balance_column_code, formatted_value>>
                         ELSE << >>
                ELSE << >>

\* the for loop of find_balance_in_category from the k-th offset on: the
\* returned (code, value) pair, or << >> for None
RECURSIVE ProbeOffsets(_, _, _, _)
ProbeOffsets(data_rows, category_info, balance_column_code, k) ==
  IF k > Len(category_info.search_offsets) THEN << >>
  ELSE LET test_row == category_info.base_row + category_info.search_offsets[k]
       IN  IF test_row < Len(data_rows) /\ Len(data_rows[test_row + 1]) > 6
           THEN LET formatted_value == preserve_number_formatting(data_rows[test_row + 1][6 + 1])
                IN  IF formatted_value # << >>
                    THEN <<balance_column_code, formatted_value>>
                    ELSE ProbeOffsets(data_rows, category_info, balance_column_code, k + 1)
           ELSE ProbeOffsets(data_rows, category_info, balance_column_code, k + 1)

find_balance_in_category(data_rows, category_key, sheet_type) ==
  ProbeOffsets(data_rows, CategoryInfo(category_key),
               <<"JTMD", sheet_type, "BAL", category_key, "M">>, 1)

\* GetItem taking row for a 1-based row number
GetItemOneBased(data_rows, row, col) ==
  IF row <= Len(data_rows) /\ col < Len(data_rows[row])
  THEN [exc |-> "", value |-> data_rows[row][col + 1]]
  ELSE [exc |-> "IndexError", value |-> None]

\* data_rows[row][col]: the value, or the IndexError Python raises
GetItem(data_rows, row, col) ==
  IF row < Len(data_rows) /\ col < Len(data_rows[row + 1])
  THEN [exc |-> "", value |-> data_rows[row + 1][col + 1]]
  ELSE [exc |-> "IndexError", value |-> None]

\* StartsWith with the test of the asset type inverted
StartsWithOtherType(code, prefix) ==
  Len(code) >= Len(prefix) /\ code[1] = prefix[1] /\ code[2] # prefix[2]

\* k.startswith(prefix) for a code k and the prefix "JTMD.<sheet_type>"
StartsWith(code, prefix) ==
  Len(code) >= Len(prefix) /\ SubSeq(code, 1, Len(prefix)) = prefix

\* FixedLoop without the except clause: the IndexError escapes
RECURSIVE FixedLoopNoExcept(_, _, _, _)
FixedLoopNoExcept(data_rows, relevant_mappings, k, extracted_data) ==
  IF k > Len(relevant_mappings) THEN [exc |-> "", data |-> extracted_data]
  ELSE LET coords == relevant_mappings[k]
           got == GetItem(data_rows, coords.row, coords.col)
       IN  IF got.exc = "IndexError"
           THEN [exc |-> "IndexError", data |-> extracted_data]
           ELSE LET formatted_value == preserve_number_formatting(got.value)
                IN  IF formatted_value # << >>
                    THEN FixedLoopNoExcept(data_rows, relevant_mappings, k + 1,
                                           Update(extracted_data, (coords.code :> formatted_value)))
                    ELSE FixedLoopNoExcept(data_rows, relevant_mappings, k + 1, extracted_data)

\* the fixed-coordinate loop of _extract_from_sheet from the k-th mapping on
RECURSIVE FixedLoop(_, _, _, _)
FixedLoop(data_rows, relevant_mappings, k, extracted_data) ==
  IF k > Len(relevant_mappings) THEN [exc |-> "", data |-> extracted_data]
  ELSE LET coords == relevant_mappings[k]
           got == GetItem(data_rows, coords.row, coords.col)
       IN  IF got.exc = "IndexError"
           THEN FixedLoop(data_rows, relevant_mappings, k + 1, extracted_data)
           ELSE LET formatted_value == preserve_number_formatting(got.value)
                IN  IF formatted_value # << >>
                    THEN FixedLoop(data_rows, relevant_mappings, k + 1,
                                   Update(extracted_data, (coords.code :> formatted_value)))
                    ELSE FixedLoop(data_rows, relevant_mappings, k + 1, extracted_data)

\* the balance loop of _extract_from_sheet from the k-th category on
RECURSIVE BalanceLoop(_, _, _, _)
BalanceLoop(data_rows, sheet_type, k, extracted_data) ==
  IF k > Len(category_structure) THEN extracted_data
  ELSE LET result == find_balance_in_category(data_rows, category_structure[k].key, sheet_type)
       IN  IF result # << >>
           THEN BalanceLoop(data_rows, sheet_type, k + 1,
                            Update(extracted_data, (result[1] :> result[2])))
           ELSE BalanceLoop(data_rows, sheet_type, k + 1, extracted_data)

\* _extract_from_sheet: the dict returned, or the exception that escapes
extract_from_sheet(data_rows, sheet_type) ==
  LET prefix == <<"JTMD", sheet_type>>
      relevant_mappings == SelectSeq(fixed_mappings, LAMBDA m : StartsWith(m.code, prefix))
      fixed == FixedLoop(data_rows, relevant_mappings, 1, EmptyDict)
  IN  IF fixed.exc # "" THEN fixed
      ELSE [exc |-> "", data |-> BalanceLoop(data_rows, sheet_type, 1, fixed.data)]


(***************************************************************************)
(* Workbooks on disk.  A workbook makes pd.ExcelFile or pd.read_excel      *)
(* raise ("corrupt"), lacks the 'Value' sheet ("nosheet") or holds a       *)
(* 'Value' sheet of nrows x ncols cells ("ok").  The cell at               *)
(* 0-based (r, c) of a sheet is made by pat[(r + c) mod Len(pat)]: a null, *)
(* an empty or blank string, the int 0, or a value stamped with the        *)
(* workbook's seed and the cell's own coordinates, so that no two cells of *)
(* the sheets in a directory hold the same non-zero value.                 *)
(***************************************************************************)
Stamp(seed, r, c) == seed * 10000 + r * 100 + c

MakeCell(maker, seed, r, c) ==
  CASE maker = "NAN" -> NaN
    [] maker = "NONE" -> None
    [] maker = "EMPTY" -> StrCell(<< >>)
    [] maker = "BLANK" -> StrCell(<<" ", "\t">>)
    [] maker = "ZERO" -> IntCell(0)
    [] maker = "INT" -> IntCell(Stamp(seed, r, c))
    [] maker = "STR" -> StrCell(<<" ">> \o IntToStr(Stamp(seed, r, c)) \o <<"\n">>)

Patterns ==
  { <<"INT", "STR", "INT">>,
    <<"NAN", "EMPTY", "BLANK">>,
    <<"NONE", "STR", "INT">>,
    <<"BLANK", "NAN", "INT">>,
    <<"ZERO", "EMPTY", "STR">> }

Sheet(nrows, ncols, pat, seed) ==
  [kind |-> "ok", nrows |-> nrows, ncols |-> ncols, pat |-> pat, seed |-> seed]

Broken(kind) == [kind |-> kind, nrows |-> 0, ncols |-> 0, pat |-> << >>, seed |-> 0]

\* pd.read_excel(file_path, sheet_name='Value', header=None).values.tolist()
ReadExcel(book) ==
  [r \in 1..book.nrows |->
     [c \in 1..book.ncols |->
        MakeCell(book.pat[(((r - 1) + (c - 1)) % Len(book.pat)) + 1],
                 book.seed, r - 1, c - 1)]]

\* process_excel_file, line 436: the sheet type of a file name
sheet_type_of(filename) ==
  IF Contains(Lower(filename), <<"e", "t", "f">>) THEN "ETF" ELSE "REIT"

\* process_excel_file: the (period, data) returned and the records logged
process_excel_file(file, today) ==
  LET named == extract_period_from_filename(file.name, today)
      warning == IF named.warned
                 THEN <<[level |-> "WARNING", event |-> "period_fallback", file |-> file.name]>>
                 ELSE << >>
      failed(event) ==
        [period |-> named.period, data |-> EmptyDict,
         log |-> warning \o <<[level |-> "ERROR", event |-> event, file |-> file.name]>>]
  IN  IF file.book.kind = "corrupt" THEN failed("error_processing")
      ELSE IF file.book.kind = "nosheet" THEN failed("no_value_sheet")
      ELSE LET sheet_type == sheet_type_of(file.name)
               got == extract_from_sheet(ReadExcel(file.book), sheet_type)
           IN  IF got.exc # "" THEN failed("error_processing")
               ELSE [period |-> named.period, data |-> got.data, log |-> warning]

(***************************************************************************)
(* AdaptiveJTMDExtractor: the output files.                                *)
(***************************************************************************)
\* Sorted in descending order
RECURSIVE SortedDescending(_)
SortedDescending(S) ==
  IF S = {} THEN << >>
  ELSE LET greatest == CHOOSE x \in S : \A y \in S \ {x} : StrLess(y, x)
       IN  <<greatest>> \o SortedDescending(S \ {greatest})

\* sorted(): the elements of the set S of str in ascending order
RECURSIVE Sorted(_)
Sorted(S) ==
  IF S = {} THEN << >>
  ELSE LET least == CHOOSE x \in S : \A y \in S \ {x} : StrLess(x, y)
       IN  <<least>> \o Sorted(S \ {least})

\* _create_output_csv: the rows written to the data file, each a list of
\* cells (a blank cell is << >>)
create_output_csv(data) ==
  LET periods == Sorted(DOMAIN data)
      codes == [k \in 1..Len(column_mapping) |-> column_mapping[k].code]
      descs == [k \in 1..Len(column_mapping) |-> column_mapping[k].desc]
      row(period) ==
        <<period>> \o [k \in 1..Len(codes) |->
                         IF codes[k] \in DOMAIN data[period]
                         THEN data[period][codes[k]] ELSE << >>]
  IN  << <<(<< >>)>> \o codes, <<(<< >>)>> \o descs >>
        \o [k \in 1..Len(periods) |-> row(periods[k])]

\* _create_metadata_csv: the rows written to the metadata file
create_metadata_csv ==
  [k \in 1..Len(column_mapping) |->
     [CODE |-> column_mapping[k].code, DESCRIPTION |-> column_mapping[k].desc,
      UNIT |-> "Thousand JPY", FREQUENCY |-> "Monthly",
      SOURCE |-> "Japan Exchange Group (JPX)", DATASET |-> "JTMD",
      NEXT_RELEASE_DATE |-> "", DATA_TYPE |-> "Numeric",
      CATEGORY |-> "Trading Statistics"]]


(***************************************************************************)
(* The input directory and the clock.                                      *)
(***************************************************************************)
\* file names the directory may hold, all matched by the glob '*.xls*'
FileNames ==
  { \* etf_m2403.xls
    <<"e", "t", "f", "_", "m", "2", "4", "0", "3", ".", "x", "l", "s">>,
    \* reit_m2403.xls
    <<"r", "e", "i", "t", "_", "m", "2", "4", "0", "3", ".", "x", "l", "s">>,
    \* ETF_M2403.xlsx
    <<"E", "T", "F", "_", "M", "2", "4", "0", "3", ".", "x", "l", "s", "x">>,
    \* reit.xls
    <<"r", "e", "i", "t", ".", "x", "l", "s">>,
    \* reit_m2312_m2403.xls
    <<"r", "e", "i", "t", "_", "m", "2", "3", "1", "2", "_", "m", "2", "4", "0", "3", ".", "x", "l", "s">>,
    \* etf_m2413.xls
    <<"e", "t", "f", "_", "m", "2", "4", "1", "3", ".", "x", "l", "s">> }

\* the names of the single file whose extraction SpecExtract checks
ExtractNames ==
  { \* etf_m2403.xls
    <<"e", "t", "f", "_", "m", "2", "4", "0", "3", ".", "x", "l", "s">>,
    \* reit_m2403.xls
    <<"r", "e", "i", "t", "_", "m", "2", "4", "0", "3", ".", "x", "l", "s">> }

\* the workbooks a directory of several files may hold
RunBooks ==
  { Broken("corrupt"), Broken("nosheet"),
    Sheet(MaxRows, MaxCols, <<"INT", "STR", "INT">>, 1),
    Sheet(MaxRows, MaxCols, <<"BLANK", "NAN", "EMPTY", "INT", "STR">>, 2) }

\* the workbooks of the directories on which the progress of run is checked:
\* every file fails or has an empty 'Value' sheet, so that no file gives a
\* value
FairBooks ==
  { Broken("corrupt"), Broken("nosheet"), Sheet(0, 0, <<"INT", "STR", "INT">>, 1) }

\* the workbooks of the single file whose extraction SpecExtract checks
SheetShapes ==
  {<<0, 0>>} \cup ((1..MaxRows) \X (1..MaxCols))

ExtractBooks ==
  { Sheet(shape[1], shape[2], pat, 1) : shape \in SheetShapes, pat \in Patterns }

\* datetime.now().strftime('%Y-%m') at the time of the run
Today2024 == <<"2", "0", "2", "4", "-", "0", "3">>

Today2026 == <<"2", "0", "2", "6", "-", "1", "1">>

Todays == {Today2024, Today2026}

\* the lists of at most n files with distinct names, in any order
RECURSIVE Listings(_, _)
Listings(n, books) ==
  IF n = 0 THEN {<< >>}
  ELSE LET shorter == Listings(n - 1, books)
           taken(l) == {l[j].name : j \in 1..Len(l)}
       IN  shorter \cup
           UNION { { Append(l, [name |-> nm, book |-> bk]) :
                       nm \in FileNames \ taken(l), bk \in books } :
                   l \in {x \in shorter : Len(x) = n - 1} }

(***************************************************************************)
(* JPXDownloader: the configuration, the website and the download          *)
(* directory.                                                              *)
(***************************************************************************)
\* JPXDownloader.MONTH_ABBREVIATIONS
MONTH_ABBREVIATIONS ==
  [m \in {"01", "02", "03", "04", "05", "06", "07", "08", "09", "10", "11", "12"} |->
     CASE m = "01" -> "Jan." [] m = "02" -> "Feb." [] m = "03" -> "Mar."
       [] m = "04" -> "Apr." [] m = "05" -> "May"  [] m = "06" -> "Jun."
       [] m = "07" -> "Jul." [] m = "08" -> "Aug." [] m = "09" -> "Sep."
       [] m = "10" -> "Oct." [] m = "11" -> "Nov." [] m = "12" -> "Dec."]

\* MONTH_ABBREVIATIONS.get(month): "" stands for None
target_month_abbr(month) ==
  IF month \in DOMAIN MONTH_ABBREVIATIONS THEN MONTH_ABBREVIATIONS[month] ELSE ""

\* the values of config['month'] the runs are checked for
ConfigMonths == {"03", "13", "3"}

\* run_download, line 170: categories_to_process, with the name of the file
\* the website links for the category in the target month
categories_to_process ==
  << [category_name |-> "ETFs", file_filter |-> <<"e", "t", "f", "_", "m">>,
      \* etf_m2403.xls
      file_name |-> <<"e", "t", "f", "_", "m", "2", "4", "0", "3", ".", "x", "l", "s">>],
     [category_name |-> "REITs", file_filter |-> <<"r", "e", "i", "t", "_", "m">>,
      \* reit_m2403.xls
      file_name |-> <<"r", "e", "i", "t", "_", "m", "2", "4", "0", "3", ".", "x", "l", "s">>] >>

TargetNames == {categories_to_process[k].file_name : k \in 1..Len(categories_to_process)}

\* the workbooks the website serves and the download directory may hold
MainBooks ==
  { Broken("corrupt"), Sheet(MaxRows, MaxCols, <<"INT", "STR", "INT">>, 1) }

\* the download directory before the run: files of earlier downloads
DownloadDirs ==
  {l \in Listings(MaxFiles, MainBooks) : \A j \in 1..Len(l) : l[j].name \in TargetNames}

\* jpx_download_log.json before the run: missing, not JSON, or a list of names
LogFiles ==
  {[state |-> "missing", names |-> {}, written |-> FALSE],
   [state |-> "corrupt", names |-> {}, written |-> FALSE]}
    \cup {[state |-> "saved", names |-> ns, written |-> FALSE] : ns \in SUBSET TargetNames}

\* the names of the files in a directory listing
NamesIn(listing) == {listing[j].name : j \in 1..Len(listing)}

\* the directory after file_path was written with the workbook book
WriteFile(listing, name, book) ==
  IF name \in NamesIn(listing)
  THEN [j \in 1..Len(listing) |->
          IF listing[j].name = name THEN [name |-> name, book |-> book] ELSE listing[j]]
  ELSE Append(listing, [name |-> name, book |-> book])

(***************************************************************************)
(* main, JPXDownloader.run_download and AdaptiveJTMDExtractor.run as a     *)
(* state machine.                                                          *)
(***************************************************************************)
VARIABLES
  excel_files,    \* list(self.input_folder.glob('*.xls*')): records [name, book]
  today,          \* what datetime.now().strftime('%Y-%m') returns
  pc,             \* where run is: "run", "loop", "metadata", "zip", "done", "returned";
                  \* "idle" before main has called it
  idx,            \* the 1-based position in excel_files of the file processed next
  all_data,       \* the Dataset: period -> (code -> value)
  prev_data,      \* history: all_data before the latest loop iteration
  results,        \* history: the (period, data) process_excel_file returned, per file
  log,            \* the records logged at WARNING level and above
  output_folder,  \* the files written: name -> contents
  main_pc,        \* where main and run_download are
  target_month_num,           \* config['month']
  category,                   \* the 1-based position in categories_to_process
  downloaded_files_log,       \* self.downloaded_files_log: a set of file names
  files_downloaded_this_run,  \* the counter of run_download
  log_file,       \* jpx_download_log.json: [state, names, written by this run]
  files_are_ready,            \* what run_download returned: "pending" before
  fetched         \* history: the files counted, each "new" or "existing"

dvars == <<main_pc, target_month_num, category, downloaded_files_log,
           files_downloaded_this_run, log_file, files_are_ready, fetched>>

vars == <<excel_files, today, pc, idx, all_data, prev_data, results, log, output_folder,
          main_pc, target_month_num, category, downloaded_files_log,
          files_downloaded_this_run, log_file, files_are_ready, fetched>>

\* the state in which run starts on the files of listing, called by main
\* after run_download returned True
InitRun(listing, days) ==
  /\ excel_files = listing
  /\ today \in days
  /\ pc = "run"
  /\ idx = 1
  /\ all_data = EmptyDict
  /\ prev_data = EmptyDict
  /\ results = << >>
  /\ log = << >>
  /\ output_folder = EmptyDict
  /\ main_pc = "extractor"
  /\ target_month_num = "03"
  /\ category = Len(categories_to_process) + 1
  /\ downloaded_files_log = {}
  /\ files_downloaded_this_run = 1
  /\ log_file = [state |-> "saved", names |-> {}, written |-> TRUE]
  /\ files_are_ready = "True"
  /\ fetched = << >>

Init == \E listing \in Listings(MaxFiles, RunBooks) : InitRun(listing, Todays)

InitExtract ==
  \E nm \in ExtractNames, bk \in ExtractBooks :
     InitRun(<<[name |-> nm, book |-> bk]>>, {Today2026})

\* Glob without the early return: an empty list goes on to the loop
GlobNoReturn ==
  /\ pc = "run"
  /\ pc' = "loop"
  /\ all_data' = EmptyDict
  /\ UNCHANGED <<excel_files, today, idx, prev_data, results, log, output_folder>>
  /\ UNCHANGED dvars

\* run, lines 496-501: the glob and the early return
Glob ==
  /\ pc = "run"
  /\ IF excel_files = << >>
     THEN /\ pc' = "returned"
          /\ log' = Append(log, [level |-> "ERROR", event |-> "no_excel_files", file |-> << >>])
     ELSE /\ pc' = "loop"
          /\ log' = log
  /\ all_data' = EmptyDict
  /\ UNCHANGED <<excel_files, today, idx, prev_data, results, output_folder>>
  /\ UNCHANGED dvars

\* Merge keeping the value a code already has in the period
MergeKeepOld(data, period, new) ==
  LET with_key == IF period \notin DOMAIN data
                  THEN Update(data, (period :> EmptyDict))
                  ELSE data
  IN  [with_key EXCEPT ![period] = Update(new, with_key[period])]

\* Merge assigning the new map to the period: all_data[period] = data
MergeReplace(data, period, new) ==
  Update(data, (period :> new))

\* Merge appending the new value of a code to the value it already has
MergeAccumulate(data, period, new) ==
  LET with_key == IF period \notin DOMAIN data
                  THEN Update(data, (period :> EmptyDict))
                  ELSE data
      old == with_key[period]
      both == [code \in (DOMAIN old) \cup (DOMAIN new) |->
                 IF code \in (DOMAIN old) \cap (DOMAIN new) THEN old[code] \o new[code]
                 ELSE IF code \in DOMAIN new THEN new[code] ELSE old[code]]
  IN  [with_key EXCEPT ![period] = both]

\* run, lines 504-506: period and data merged into the dataset
Merge(data, period, new) ==
  LET with_key == IF period \notin DOMAIN data
                  THEN Update(data, (period :> EmptyDict))
                  ELSE data
  IN  [with_key EXCEPT ![period] = Update(with_key[period], new)]

\* ProcessFile with no handler in process_excel_file: a failing file ends run
ProcessFileNoHandler ==
  /\ pc = "loop"
  /\ idx <= Len(excel_files)
  /\ LET got == process_excel_file(excel_files[idx], today)
     IN  IF excel_files[idx].book.kind = "corrupt"
         THEN /\ pc' = "returned"
              /\ UNCHANGED <<all_data, results, log, prev_data, idx>>
         ELSE /\ all_data' = Merge(all_data, got.period, got.data)
              /\ results' = Append(results, [period |-> got.period, data |-> got.data])
              /\ log' = log \o got.log
              /\ prev_data' = all_data
              /\ idx' = idx + 1
              /\ pc' = pc
  /\ UNCHANGED <<excel_files, today, output_folder>>
  /\ UNCHANGED dvars

\* ProcessFile leaving the dataset alone when the file gave no data
ProcessFileSkipEmpty ==
  /\ pc = "loop"
  /\ idx <= Len(excel_files)
  /\ LET got == process_excel_file(excel_files[idx], today)
     IN  /\ all_data' = IF DOMAIN got.data = {} THEN all_data
                        ELSE Merge(all_data, got.period, got.data)
         /\ results' = Append(results, [period |-> got.period, data |-> got.data])
         /\ log' = log \o got.log
  /\ prev_data' = all_data
  /\ idx' = idx + 1
  /\ UNCHANGED <<excel_files, today, pc, output_folder>>
  /\ UNCHANGED dvars

\* run, lines 502-506: one iteration of the loop over excel_files
ProcessFile ==
  /\ pc = "loop"
  /\ idx <= Len(excel_files)
  /\ LET got == process_excel_file(excel_files[idx], today)
     IN  /\ all_data' = Merge(all_data, got.period, got.data)
         /\ results' = Append(results, [period |-> got.period, data |-> got.data])
         /\ log' = log \o got.log
  /\ prev_data' = all_data
  /\ idx' = idx + 1
  /\ UNCHANGED <<excel_files, today, pc, output_folder>>
  /\ UNCHANGED dvars

\* run, lines 508-513: the check after the loop and the data file
WriteData ==
  /\ pc = "loop"
  /\ idx > Len(excel_files)
  /\ IF DOMAIN all_data = {}
     THEN /\ pc' = "returned"
          /\ log' = Append(log, [level |-> "ERROR", event |-> "no_data", file |-> << >>])
          /\ output_folder' = output_folder
     ELSE /\ pc' = "metadata"
          /\ log' = log
          /\ output_folder' = Update(output_folder, ("JTMD_DATA.csv" :> create_output_csv(all_data)))
  /\ UNCHANGED <<excel_files, today, idx, all_data, prev_data, results>>
  /\ UNCHANGED dvars

\* run, line 514: the metadata file
WriteMetadata ==
  /\ pc = "metadata"
  /\ output_folder' = Update(output_folder, ("JTMD_META.csv" :> create_metadata_csv))
  /\ pc' = "zip"
  /\ UNCHANGED <<excel_files, today, idx, all_data, prev_data, results, log>>
  /\ UNCHANGED dvars

\* run, lines 515-517: the archive of the two files
WriteZip ==
  /\ pc = "zip"
  /\ output_folder' = Update(output_folder,
       ("JTMD.zip" :> [n \in {"JTMD_DATA.csv", "JTMD_META.csv"} |-> output_folder[n]]))
  /\ pc' = "done"
  /\ UNCHANGED <<excel_files, today, idx, all_data, prev_data, results, log>>
  /\ UNCHANGED dvars

Next == Glob \/ ProcessFile \/ WriteData \/ WriteMetadata \/ WriteZip

Spec == Init /\ [][Next]_vars

SpecExtract == InitExtract /\ [][Next]_vars

\* run on a directory whose files give no value; run is sequential code: a
\* step that can be taken is taken
InitFair == \E listing \in Listings(MaxFiles, FairBooks) : InitRun(listing, {Today2026})

SpecFair == InitFair /\ [][Next]_vars /\ WF_vars(Next)

(***************************************************************************)
(* main and JPXDownloader.run_download.  What the website, the network and *)
(* the file system answer is chosen by each step.                          *)
(***************************************************************************)
xvars == <<today, pc, idx, all_data, prev_data, results, output_folder>>

Logged(level, event, file) == [level |-> level, event |-> event, file |-> file]

\* the state main starts in: the extractor has not been called
InitMain ==
  /\ excel_files \in DownloadDirs
  /\ today = Today2024
  /\ pc = "idle"
  /\ idx = 1
  /\ all_data = EmptyDict
  /\ prev_data = EmptyDict
  /\ results = << >>
  /\ log = << >>
  /\ output_folder = EmptyDict
  /\ main_pc = "main"
  /\ target_month_num \in ConfigMonths
  /\ category = 1
  /\ downloaded_files_log = {}
  /\ files_downloaded_this_run = 0
  /\ log_file \in LogFiles
  /\ files_are_ready = "pending"
  /\ fetched = << >>

\* main, lines 546-553, and JPXDownloader.__init__ with _load_download_log:
\* a log file that is not JSON raises, and main exits
MainStart ==
  /\ main_pc = "main"
  /\ IF log_file.state = "corrupt"
     THEN /\ main_pc' = "exit"
          /\ log' = Append(log, Logged("CRITICAL", "main_pipeline_error", << >>))
          /\ downloaded_files_log' = downloaded_files_log
     ELSE /\ main_pc' = "run_download"
          /\ log' = log
          /\ downloaded_files_log' = log_file.names
  /\ UNCHANGED <<excel_files, target_month_num, category, files_downloaded_this_run,
                 log_file, files_are_ready, fetched>>
  /\ UNCHANGED xvars

\* run_download, lines 143-152: the check of the configured month
CheckMonth ==
  /\ main_pc = "run_download"
  /\ IF target_month_abbr(target_month_num) = ""
     THEN /\ main_pc' = "branch"
          /\ files_are_ready' = "False"
          /\ log' = Append(log, Logged("ERROR", "invalid_month", << >>))
     ELSE /\ main_pc' = "browser"
          /\ files_are_ready' = files_are_ready
          /\ log' = log
  /\ files_downloaded_this_run' = 0
  /\ UNCHANGED <<excel_files, target_month_num, category, downloaded_files_log,
                 log_file, fetched>>
  /\ UNCHANGED xvars

\* run_download, lines 153-170: the browser is started and the site opened,
\* or an exception sends run_download to its handler
OpenBrowser ==
  /\ main_pc = "browser"
  /\ \E started \in BOOLEAN :
        main_pc' = IF started THEN "category" ELSE "except"
  /\ category' = 1
  /\ UNCHANGED <<excel_files, log, target_month_num, downloaded_files_log,
                 files_downloaded_this_run, log_file, files_are_ready, fetched>>
  /\ UNCHANGED xvars

\* run_download, lines 172-239: one iteration of the loop over the
\* categories.  The page raises, shows no link for the month, or links
\* file_name; the download saves a workbook, fails with a network error, or
\* raises.
ProcessCategory ==
  /\ main_pc = "category"
  /\ category <= Len(categories_to_process)
  /\ LET file_name == categories_to_process[category].file_name
         skip == /\ file_name \in downloaded_files_log
                 /\ file_name \in NamesIn(excel_files)
         redownload == IF file_name \in downloaded_files_log
                       THEN <<Logged("WARNING", "re_download", file_name)>>
                       ELSE << >>
     IN  \E page \in {"raise", "no_link", "link"} :
         \E download \in {"saved", "network_error", "raise"} :
         \E book \in MainBooks :
           CASE page = "raise" ->
                  /\ main_pc' = "except"
                  /\ UNCHANGED <<excel_files, log, category, downloaded_files_log,
                                 files_downloaded_this_run, fetched>>
             [] page = "no_link" ->
                  /\ log' = Append(log, Logged("WARNING", "no_link",
                                               categories_to_process[category].file_filter))
                  /\ category' = category + 1
                  /\ UNCHANGED <<excel_files, main_pc, downloaded_files_log,
                                 files_downloaded_this_run, fetched>>
             [] page = "link" /\ skip ->
                  /\ files_downloaded_this_run' = files_downloaded_this_run + 1
                  /\ fetched' = Append(fetched, [name |-> file_name, how |-> "existing"])
                  /\ category' = category + 1
                  /\ UNCHANGED <<excel_files, log, main_pc, downloaded_files_log>>
             [] page = "link" /\ ~ skip /\ download = "saved" ->
                  /\ excel_files' = WriteFile(excel_files, file_name, book)
                  /\ downloaded_files_log' = downloaded_files_log \cup {file_name}
                  /\ files_downloaded_this_run' = files_downloaded_this_run + 1
                  /\ fetched' = Append(fetched, [name |-> file_name, how |-> "new"])
                  /\ log' = log \o redownload
                  /\ category' = category + 1
                  /\ UNCHANGED main_pc
             [] page = "link" /\ ~ skip /\ download = "network_error" ->
                  /\ log' = log \o redownload
                             \o <<Logged("ERROR", "network_error", file_name),
                                  Logged("ERROR", "download_failed", file_name)>>
                  /\ category' = category + 1
                  /\ UNCHANGED <<excel_files, main_pc, downloaded_files_log,
                                 files_downloaded_this_run, fetched>>
             [] page = "link" /\ ~ skip /\ download = "raise" ->
                  /\ log' = log \o redownload
                  /\ main_pc' = "except"
                  /\ UNCHANGED <<excel_files, category, downloaded_files_log,
                                 files_downloaded_this_run, fetched>>
  /\ UNCHANGED <<target_month_num, log_file, files_are_ready>>
  /\ UNCHANGED xvars

\* what run_download returns at lines 250-255, or False from the handler
ReturnAtLeastZero(raised, count) ==
  IF raised THEN "False" ELSE IF count >= 0 THEN "True" ELSE "False"

ReturnValue(raised, count) ==
  IF raised THEN "False" ELSE IF count > 0 THEN "True" ELSE "False"

\* run_download, lines 241-255: the handler of an unexpected exception, the
\* finally clause that saves the download log, and the value returned; when
\* the log cannot be written the exception escapes to main, which exits
Finally ==
  /\ main_pc \in {"category", "except"}
  /\ main_pc = "category" => category > Len(categories_to_process)
  /\ LET raised == main_pc = "except"
         critical == IF raised
                     THEN <<Logged("CRITICAL", "unexpected_error", << >>)>> ELSE << >>
         value == ReturnValue(raised, files_downloaded_this_run)
     IN  \E saved \in BOOLEAN :
           IF saved
           THEN /\ log_file' = [state |-> "saved", names |-> downloaded_files_log,
                                written |-> TRUE]
                /\ files_are_ready' = value
                /\ main_pc' = "branch"
                /\ log' = log \o critical
                           \o (IF value = "False" /\ ~ raised
                               THEN <<Logged("WARNING", "no_files_found", << >>)>>
                               ELSE << >>)
           ELSE /\ log_file' = log_file
                /\ files_are_ready' = "raised"
                /\ main_pc' = "exit"
                /\ log' = log \o critical
                           \o <<Logged("CRITICAL", "main_pipeline_error", << >>)>>
  /\ UNCHANGED <<excel_files, target_month_num, category, downloaded_files_log,
                 files_downloaded_this_run, fetched>>
  /\ UNCHANGED xvars

\* MainBranch calling the extractor whatever run_download returned
MainBranchAlways ==
  /\ main_pc = "branch"
  /\ main_pc' = "extractor"
  /\ pc' = "run"
  /\ UNCHANGED <<excel_files, today, idx, all_data, prev_data, results, log, output_folder,
                 target_month_num, category, downloaded_files_log,
                 files_downloaded_this_run, log_file, files_are_ready, fetched>>

\* main, lines 557-564: the extractor is called when files_are_ready
MainBranch ==
  /\ main_pc = "branch"
  /\ IF files_are_ready = "True"
     THEN /\ main_pc' = "extractor"
          /\ pc' = "run"
          /\ log' = log
     ELSE /\ main_pc' = "finished"
          /\ pc' = pc
          /\ log' = Append(log, Logged("WARNING", "extractor_skipped", << >>))
  /\ UNCHANGED <<excel_files, today, idx, all_data, prev_data, results, output_folder,
                 target_month_num, category, downloaded_files_log,
                 files_downloaded_this_run, log_file, files_are_ready, fetched>>

\* main, lines 562-569: extractor.run has returned
MainFinish ==
  /\ main_pc = "extractor"
  /\ pc \in {"returned", "done"}
  /\ main_pc' = "finished"
  /\ UNCHANGED <<excel_files, log, target_month_num, category, downloaded_files_log,
                 files_downloaded_this_run, log_file, files_are_ready, fetched>>
  /\ UNCHANGED xvars

NextMain ==
  \/ MainStart \/ CheckMonth \/ OpenBrowser \/ ProcessCategory \/ Finally
  \/ MainBranch \/ MainFinish
  \/ Glob \/ ProcessFile \/ WriteData \/ WriteMetadata \/ WriteZip

SpecMain == InitMain /\ [][NextMain]_vars


(***************************************************************************)
(* What the claims speak of: the files processed so far.                   *)
(***************************************************************************)
Processed == 1..Len(results)

IsSheet(k) == excel_files[k].book.kind = "ok"

GridOf(k) == ReadExcel(excel_files[k].book)

TypeOf(k) == sheet_type_of(excel_files[k].name)

DataOf(k) == results[k].data

Least(S) == CHOOSE x \in S : \A y \in S : x <= y

\* the entries of the fixed-coordinate table whose code names the asset type
FixedOfType(type) == {j \in 1..Len(fixed_mappings) : fixed_mappings[j].code[2] = type}

CellInGrid(grid, row, col) == row < Len(grid) /\ col < Len(grid[row + 1])

BalanceCode(type, cat) == <<"JTMD", type, "BAL", cat.key, "M">>

\* the offsets of cat's window whose row is in the grid and whose cell in
\* column 6 formats to a non-empty string
WindowHits(grid, cat) ==
  {o \in {0, 1, 2} :
     /\ CellInGrid(grid, cat.base_row + o, 6)
     /\ preserve_number_formatting(grid[cat.base_row + o + 1][7]) # << >>}

\* a cell that is null or NaN
IsNull(value) == value.kind \in {"nan", "none"}

\* a cell that is null, NaN, the empty string or white space only
IsBlank(value) ==
  \/ IsNull(value)
  \/ value.kind = "str" /\ \A j \in 1..Len(value.s) : value.s[j] \in Whitespace

\* an ERROR record was logged for the k-th file
FileFailed(k) ==
  \E j \in 1..Len(log) : log[j].level = "ERROR" /\ log[j].file = excel_files[k].name

(***************************************************************************)
(* C1: for every category and every grid, find_balance_in_category returns *)
(* the formatted value of the first of the rows base_row + 0, + 1, + 2     *)
(* that is in the grid and formats column 6 to a non-empty string, under   *)
(* the category's balance code, and returns nothing exactly when no row of *)
(* the window does.                                                        *)
(***************************************************************************)
C1_FirstNonEmptyRowOfWindow ==
  \A k \in Processed : IsSheet(k) =>
    LET grid == GridOf(k)
    IN  \A c \in 1..Len(category_structure) :
          LET cat == category_structure[c]
              code == BalanceCode(TypeOf(k), cat)
              hits == WindowHits(grid, cat)
          IN  IF hits = {}
              THEN code \notin DOMAIN DataOf(k)
              ELSE /\ code \in DOMAIN DataOf(k)
                   /\ DataOf(k)[code] =
                        preserve_number_formatting(grid[cat.base_row + Least(hits) + 1][7])

\* a window whose first row is in the grid and empty and whose second and
\* third rows are not empty, resolved to the second row
C1_Witness ==
  \E k \in Processed : IsSheet(k) /\
    \E c \in 1..Len(category_structure) :
       LET cat == category_structure[c]
           grid == GridOf(k)
       IN  /\ CellInGrid(grid, cat.base_row, 6)
           /\ WindowHits(grid, cat) = {1, 2}
           /\ DataOf(k)[BalanceCode(TypeOf(k), cat)] =
                preserve_number_formatting(grid[cat.base_row + 2][7])

(***************************************************************************)
(* C2 as stated: every SALES/PURCHASES code of the file's asset type whose *)
(* coordinate is in the grid and holds a non-empty, non-null value is      *)
(* mapped to the stringified, trimmed value of the cell, and no code of    *)
(* the other asset type is emitted.                                        *)
(***************************************************************************)
C2_AsStated ==
  \A k \in Processed : IsSheet(k) =>
    LET grid == GridOf(k)
    IN  /\ \A j \in FixedOfType(TypeOf(k)) :
             LET m == fixed_mappings[j]
             IN  (/\ CellInGrid(grid, m.row, m.col)
                  /\ ~ IsNull(grid[m.row + 1][m.col + 1])
                  /\ grid[m.row + 1][m.col + 1] # StrCell(<< >>))
                 => /\ m.code \in DOMAIN DataOf(k)
                    /\ DataOf(k)[m.code] = Strip(Str(grid[m.row + 1][m.col + 1]))
        /\ \A code \in DOMAIN DataOf(k) : code[2] = TypeOf(k)

(***************************************************************************)
(* C2 as amended: every SALES/PURCHASES code of the file's asset type      *)
(* whose coordinate is in the grid and holds a non-null value whose        *)
(* stringified, trimmed form is not empty is mapped to exactly that form,  *)
(* and no code of the other asset type is emitted.                         *)
(***************************************************************************)
C2_FixedValueExact ==
  \A k \in Processed : IsSheet(k) =>
    LET grid == GridOf(k)
    IN  /\ \A j \in FixedOfType(TypeOf(k)) :
             LET m == fixed_mappings[j]
             IN  (/\ CellInGrid(grid, m.row, m.col)
                  /\ ~ IsNull(grid[m.row + 1][m.col + 1])
                  /\ Strip(Str(grid[m.row + 1][m.col + 1])) # << >>)
                 => /\ m.code \in DOMAIN DataOf(k)
                    /\ DataOf(k)[m.code] = Strip(Str(grid[m.row + 1][m.col + 1]))
        /\ \A code \in DOMAIN DataOf(k) : code[2] = TypeOf(k)

\* a padded string at a fixed coordinate, emitted trimmed
C2_Witness ==
  \E k \in Processed : IsSheet(k) /\
    \E j \in FixedOfType(TypeOf(k)) :
       LET m == fixed_mappings[j]
           grid == GridOf(k)
       IN  /\ CellInGrid(grid, m.row, m.col)
           /\ grid[m.row + 1][m.col + 1].kind = "str"
           /\ Strip(grid[m.row + 1][m.col + 1].s) # << >>
           /\ Strip(grid[m.row + 1][m.col + 1].s) # grid[m.row + 1][m.col + 1].s
           /\ m.code \in DOMAIN DataOf(k)
           /\ DataOf(k)[m.code] = Strip(grid[m.row + 1][m.col + 1].s)

(***************************************************************************)
(* C3: on a grid with too few rows or columns for a field's coordinate,    *)
(* the empty grid included, the extraction raises nothing, the fields      *)
(* whose coordinates are outside the grid are absent, and the fields whose *)
(* coordinates are inside it are extracted.                                *)
(***************************************************************************)
C3_ShortGridOmitsFields ==
  \A k \in Processed : IsSheet(k) =>
    LET grid == GridOf(k)
        type == TypeOf(k)
    IN  /\ ~ FileFailed(k)
        /\ \A j \in FixedOfType(type) :
             LET m == fixed_mappings[j]
             IN  IF CellInGrid(grid, m.row, m.col)
                 THEN ~ IsBlank(grid[m.row + 1][m.col + 1]) => m.code \in DOMAIN DataOf(k)
                 ELSE m.code \notin DOMAIN DataOf(k)
        /\ \A c \in 1..Len(category_structure) :
             LET cat == category_structure[c]
                 inside == {o \in {0, 1, 2} : CellInGrid(grid, cat.base_row + o, 6)}
             IN  /\ inside = {} => BalanceCode(type, cat) \notin DOMAIN DataOf(k)
                 /\ (\E o \in inside : ~ IsBlank(grid[cat.base_row + o + 1][7]))
                      => BalanceCode(type, cat) \in DOMAIN DataOf(k)

\* a sheet that ends inside the table: one fixed field is outside it and
\* absent, another is inside it and extracted
C3_Witness ==
  \E k \in Processed : IsSheet(k) /\
    LET grid == GridOf(k)
        type == TypeOf(k)
    IN  /\ Len(grid) > 0
        /\ ~ FileFailed(k)
        /\ \E j \in FixedOfType(type) :
             /\ ~ CellInGrid(grid, fixed_mappings[j].row, fixed_mappings[j].col)
             /\ fixed_mappings[j].code \notin DOMAIN DataOf(k)
        /\ \E j \in FixedOfType(type) :
             /\ CellInGrid(grid, fixed_mappings[j].row, fixed_mappings[j].col)
             /\ fixed_mappings[j].code \in DOMAIN DataOf(k)

(***************************************************************************)
(* C4: no extraction result and no entry of the dataset maps a code to the *)
(* empty string; a fixed-coordinate cell that is empty, null, NaN or white *)
(* space only leaves its code absent, and so does a balance window whose   *)
(* cells inside the grid are all such cells.                               *)
(***************************************************************************)
C4_NoEmptyStringValue ==
  /\ \A p \in DOMAIN all_data : \A code \in DOMAIN all_data[p] : all_data[p][code] # << >>
  /\ \A k \in Processed :
       /\ \A code \in DOMAIN DataOf(k) : DataOf(k)[code] # << >>
       /\ IsSheet(k) =>
            LET grid == GridOf(k)
                type == TypeOf(k)
            IN  /\ \A j \in FixedOfType(type) :
                     LET m == fixed_mappings[j]
                     IN  (CellInGrid(grid, m.row, m.col) /\ IsBlank(grid[m.row + 1][m.col + 1]))
                         => m.code \notin DOMAIN DataOf(k)
                /\ \A c \in 1..Len(category_structure) :
                     LET cat == category_structure[c]
                     IN  (\A o \in {0, 1, 2} :
                            CellInGrid(grid, cat.base_row + o, 6)
                              => IsBlank(grid[cat.base_row + o + 1][7]))
                         => BalanceCode(type, cat) \notin DOMAIN DataOf(k)

\* a merged file with a white-space-only string at a fixed coordinate, whose
\* code is absent from a period that holds other values
C4_Witness ==
  \E k \in Processed : IsSheet(k) /\
    \E j \in FixedOfType(TypeOf(k)) :
       LET m == fixed_mappings[j]
           grid == GridOf(k)
       IN  /\ CellInGrid(grid, m.row, m.col)
           /\ grid[m.row + 1][m.col + 1].kind = "str"
           /\ grid[m.row + 1][m.col + 1].s # << >>
           /\ IsBlank(grid[m.row + 1][m.col + 1])
           /\ m.code \notin DOMAIN all_data[results[k].period]
           /\ DOMAIN all_data[results[k].period] # {}

(***************************************************************************)
(* C5: merging (P, R) into the dataset inserts R as the map of P when P is *)
(* new; when P exists, every code of R takes R's value, every code only in *)
(* the old map keeps its value, and the maps of the other periods are      *)
(* unchanged.                                                              *)
(***************************************************************************)
C5_MergeNewOverwritesOld ==
  Len(results) >= 1 =>
    LET P == results[Len(results)].period
        R == results[Len(results)].data
    IN  /\ DOMAIN all_data = (DOMAIN prev_data) \cup {P}
        /\ \A p \in (DOMAIN prev_data) \ {P} : all_data[p] = prev_data[p]
        /\ IF P \notin DOMAIN prev_data
           THEN all_data[P] = R
           ELSE /\ DOMAIN all_data[P] = (DOMAIN prev_data[P]) \cup (DOMAIN R)
                /\ \A code \in DOMAIN R : all_data[P][code] = R[code]
                /\ \A code \in (DOMAIN prev_data[P]) \ (DOMAIN R) :
                     all_data[P][code] = prev_data[P][code]

\* a second file of a period whose value for a code differs from the first
\* file's and replaces it, while a code the second file lacks is kept
C5_Witness ==
  /\ Len(results) >= 2
  /\ LET P == results[Len(results)].period
         R == results[Len(results)].data
     IN  /\ P \in DOMAIN prev_data
         /\ \E code \in (DOMAIN R) \cap (DOMAIN prev_data[P]) :
              prev_data[P][code] # R[code] /\ all_data[P][code] = R[code]
         /\ \E code \in (DOMAIN prev_data[P]) \ (DOMAIN R) :
              all_data[P][code] = prev_data[P][code]

(***************************************************************************)
(* Support for C6 and C9: the merges of run's loop over a list of          *)
(* (period, data) pairs, starting from the dataset data.                   *)
(***************************************************************************)
RECURSIVE MergeAll(_, _)
MergeAll(pairs, data) ==
  IF pairs = << >> THEN data
  ELSE MergeAll(Tail(pairs), Merge(data, Head(pairs).period, Head(pairs).data))

\* the (period, code, value) triples of a dataset
Triples(data) ==
  UNION { { <<p, code, data[p][code]>> : code \in DOMAIN data[p] } : p \in DOMAIN data }

\* what process_excel_file returned for the readable files, in order
ReadableResults ==
  LET tagged == [k \in 1..Len(results) |-> [ok |-> IsSheet(k), pair |-> results[k]]]
      kept == SelectSeq(tagged, LAMBDA t : t.ok)
  IN  [k \in 1..Len(kept) |-> kept[k].pair]

(***************************************************************************)
(* C6: a file that fails returns an empty result and is logged; run is     *)
(* never ended by it: it returns early only when there is no file, every   *)
(* file has been processed when the outputs are written, and the values of *)
(* the dataset are those the other files alone would have given.           *)
(***************************************************************************)
C6_FileFailureIsolated ==
  /\ \A k \in Processed : ~ IsSheet(k) => (DOMAIN DataOf(k) = {} /\ FileFailed(k))
  /\ pc = "returned" => excel_files = << >>
  /\ pc \in {"metadata", "zip", "done"} => Len(results) = Len(excel_files)
  /\ Triples(all_data) = Triples(MergeAll(ReadableResults, EmptyDict))

\* a run that ended after an unreadable first file and a readable second one
C6_Witness ==
  /\ pc = "done"
  /\ Len(excel_files) = 2
  /\ excel_files[1].book.kind = "corrupt"
  /\ IsSheet(2)
  /\ Triples(all_data) # {}
  /\ Triples(all_data) = Triples(MergeAll(<<results[2]>>, EmptyDict))

(***************************************************************************)
(* C7 as stated: a file that fails is skipped: the dataset after the file  *)
(* is handled equals the dataset before it, so no period key is added and  *)
(* the data table has no row for a period only failed files carry.         *)
(***************************************************************************)
C7_AsStated ==
  /\ (Len(results) >= 1 /\ ~ IsSheet(Len(results)))
       => all_data = prev_data
  /\ "JTMD_DATA.csv" \in DOMAIN output_folder
       => \A r \in 3..Len(output_folder["JTMD_DATA.csv"]) :
            \E k \in Processed :
               IsSheet(k) /\ results[k].period = output_folder["JTMD_DATA.csv"][r][1]

(***************************************************************************)
(* C8 as stated: a file name that contains 'm' followed by four digits     *)
(* YYMM gets the period 20YY-MM (m2403 gives 2024-03); a file name that    *)
(* contains no such token gets the current month, and the warning is       *)
(* logged.                                                                 *)
(***************************************************************************)
TokensOf(s) ==
  {j \in 1..(Len(s) - 4) :
     /\ s[j] = "m"
     /\ \A d \in 1..4 : s[j + d] \in {Digits[n] : n \in 1..Len(Digits)}}

PeriodAt(s, j) == <<"2", "0", s[j + 1], s[j + 2], "-", s[j + 3], s[j + 4]>>

Warned(k) ==
  \E j \in 1..Len(log) : log[j].level = "WARNING" /\ log[j].file = excel_files[k].name

C8_AsStated ==
  \A k \in Processed :
    LET name == excel_files[k].name
    IN  /\ IF TokensOf(name) # {}
           THEN \E j \in TokensOf(name) : results[k].period = PeriodAt(name, j)
           ELSE results[k].period = today /\ Warned(k)
        /\ Contains(name, <<"m", "2", "4", "0", "3">>)
             => results[k].period = <<"2", "0", "2", "4", "-", "0", "3">>

(***************************************************************************)
(* C8 as amended: a file name that contains 'm' or 'M' followed by four    *)
(* digits YYMM gets the period 20YY-MM of the leftmost such token, and no  *)
(* warning; a file name that contains no such token gets the current       *)
(* month, and the warning is logged.                                       *)
(***************************************************************************)
C8_PeriodFromFileName ==
  \A k \in Processed :
    LET name == excel_files[k].name
        tokens == TokensOf(Lower(name))
    IN  IF tokens # {}
        THEN results[k].period = PeriodAt(Lower(name), Least(tokens)) /\ ~ Warned(k)
        ELSE results[k].period = today /\ Warned(k)

\* both cases in one run: a name whose leftmost token is m2403 and a name
\* with no token, while the current month is another one
C8_Witness ==
  /\ Len(results) = 2
  /\ \E k \in Processed :
        /\ TokensOf(excel_files[k].name) # {}
        /\ SubSeq(excel_files[k].name, Least(TokensOf(excel_files[k].name)),
                  Least(TokensOf(excel_files[k].name)) + 4) = <<"m", "2", "4", "0", "3">>
        /\ results[k].period = <<"2", "0", "2", "4", "-", "0", "3">>
        /\ ~ Warned(k)
  /\ \E k \in Processed :
        /\ TokensOf(Lower(excel_files[k].name)) = {}
        /\ results[k].period = <<"2", "0", "2", "6", "-", "1", "1">>
        /\ Warned(k)

(***************************************************************************)
(* C9: when the files' results have pairwise disjoint codes, the dataset   *)
(* after the loop is the one every other processing order gives; when the  *)
(* files also carry one period, the dataset has that single key and its    *)
(* map is the union of the files' results, each value unchanged.           *)
(***************************************************************************)
DisjointResults ==
  \A j, k \in Processed :
     j # k => (DOMAIN DataOf(j)) \cap (DOMAIN DataOf(k)) = {}

C9_OrderIndependentUnion ==
  (Len(results) = Len(excel_files) /\ Len(results) >= 2 /\ DisjointResults) =>
    /\ \A perm \in Permutations(1..Len(excel_files)) :
         all_data = MergeAll([j \in 1..Len(results) |-> results[perm[j]]], EmptyDict)
    /\ (\A k \in Processed : results[k].period = results[1].period) =>
         /\ DOMAIN all_data = {results[1].period}
         /\ DOMAIN all_data[results[1].period] = UNION {DOMAIN DataOf(k) : k \in Processed}
         /\ \A k \in Processed : \A code \in DOMAIN DataOf(k) :
              all_data[results[1].period][code] = DataOf(k)[code]

\* an ETF file and a REIT file of 2024-03, both with values, merged
C9_Witness ==
  /\ pc = "done"
  /\ Len(results) = 2
  /\ IsSheet(1) /\ IsSheet(2)
  /\ TypeOf(1) # TypeOf(2)
  /\ results[1].period = <<"2", "0", "2", "4", "-", "0", "3">>
  /\ results[2].period = <<"2", "0", "2", "4", "-", "0", "3">>
  /\ DOMAIN DataOf(1) # {} /\ DOMAIN DataOf(2) # {}
  /\ DOMAIN all_data = {<<"2", "0", "2", "4", "-", "0", "3">>}
  /\ Cardinality(DOMAIN all_data[results[1].period])
       = Cardinality(DOMAIN DataOf(1)) + Cardinality(DOMAIN DataOf(2))

(***************************************************************************)
(* C10: the data table is two header rows, the catalog's codes and then    *)
(* their descriptions, followed by exactly one row per period of the       *)
(* dataset in strictly ascending order of the period; the columns are in   *)
(* catalog order, and the cell of a period and a code holds the dataset's  *)
(* value when the code is present for the period and is blank otherwise.   *)
(***************************************************************************)
C10_DataTableLayout ==
  "JTMD_DATA.csv" \in DOMAIN output_folder =>
    LET table == output_folder["JTMD_DATA.csv"]
        ncodes == Len(column_mapping)
    IN  /\ Len(table) = 2 + Cardinality(DOMAIN all_data)
        /\ \A r \in 1..Len(table) : Len(table[r]) = 1 + ncodes
        /\ table[1][1] = << >> /\ table[2][1] = << >>
        /\ \A c \in 1..ncodes :
             /\ table[1][c + 1] = column_mapping[c].code
             /\ table[2][c + 1] = column_mapping[c].desc
        /\ {table[r][1] : r \in 3..Len(table)} = DOMAIN all_data
        /\ \A r \in 3..(Len(table) - 1) : StrLess(table[r][1], table[r + 1][1])
        /\ \A r \in 3..Len(table) : \A c \in 1..ncodes :
             LET period_data == all_data[table[r][1]]
                 code == column_mapping[c].code
             IN  table[r][c + 1] = IF code \in DOMAIN period_data
                                   THEN period_data[code] ELSE << >>

\* a table of two periods whose files were processed later period first,
\* with a value cell and a blank cell
C10_Witness ==
  /\ "JTMD_DATA.csv" \in DOMAIN output_folder
  /\ Len(output_folder["JTMD_DATA.csv"]) = 4
  /\ Len(results) = 2
  /\ StrLess(results[2].period, results[1].period)
  /\ output_folder["JTMD_DATA.csv"][3][1] = results[2].period
  /\ \E c \in 2..(Len(column_mapping) + 1) : output_folder["JTMD_DATA.csv"][3][c] # << >>
  /\ \E c \in 2..(Len(column_mapping) + 1) : output_folder["JTMD_DATA.csv"][3][c] = << >>

(***************************************************************************)
(* C11 as stated: what process_excel_file returns for a file, period and   *)
(* data, depends on the file's name and grid only, so it is the same       *)
(* whenever the file is processed, and merging it again into the dataset   *)
(* it was just merged into leaves the dataset as it is.                    *)
(***************************************************************************)
C11_AsStated ==
  Len(results) >= 1 =>
    \A t \in Todays :
       LET again == process_excel_file(excel_files[Len(results)], t)
       IN  /\ again.period = results[Len(results)].period
           /\ again.data = results[Len(results)].data
           /\ Merge(all_data, again.period, again.data) = all_data

(***************************************************************************)
(* C11 as amended: the data process_excel_file returns for a file depends  *)
(* on the file's name and grid only, and so does the period when the name  *)
(* holds a period token (without one the period is the month in which the  *)
(* file is processed); merging the result of the file just merged a second *)
(* time leaves the dataset exactly as it was after the first merge.  It is *)
(* stated of the file merged last, while run is in its loop: every file is *)
(* that file in some state.                                                *)
(***************************************************************************)
C11_ReprocessIdempotent ==
  (pc = "loop" /\ Len(results) >= 1) =>
    LET file == excel_files[Len(results)]
        first == results[Len(results)]
        on_day == [t \in Todays |-> process_excel_file(file, t)]
        again == on_day[today]
    IN  /\ \A t \in Todays : on_day[t].data = first.data
        /\ TokensOf(Lower(file.name)) # {} =>
              \A t \in Todays : on_day[t].period = first.period
        /\ again.period = first.period /\ again.data = first.data
        /\ Merge(all_data, again.period, again.data) = all_data

\* the second of two files with values for one period has just been merged,
\* and merging it again changes nothing
C11_Witness ==
  /\ pc = "loop"
  /\ Len(results) = 2
  /\ IsSheet(1) /\ IsSheet(2)
  /\ DOMAIN DataOf(1) # {} /\ DOMAIN DataOf(2) # {}
  /\ results[1].period = results[2].period
  /\ TokensOf(Lower(excel_files[2].name)) # {}
  /\ all_data # prev_data
  /\ Merge(all_data, results[2].period, results[2].data) = all_data

(***************************************************************************)
(* C12: when the input directory holds no candidate file, which is also    *)
(* what the glob of a directory that does not exist gives, run returns at  *)
(* once: the error is logged, no file is processed, the dataset stays      *)
(* empty and none of the data file, the metadata file and the archive is   *)
(* written.                                                                *)
(***************************************************************************)
C12_NoFilesAborts ==
  excel_files = << >> =>
    /\ pc \in {"run", "returned"}
    /\ pc = "returned" =>
         log = <<[level |-> "ERROR", event |-> "no_excel_files", file |-> << >>]>>
    /\ results = << >>
    /\ all_data = EmptyDict
    /\ output_folder = EmptyDict

\* run has returned from an empty directory
C12_Witness ==
  /\ excel_files = << >>
  /\ pc = "returned"
  /\ Len(log) = 1 /\ log[1].event = "no_excel_files"
  /\ DOMAIN output_folder = {}

(***************************************************************************)
(* Support for C13: the sales and purchases codes of a result, and the     *)
(* entries of the fixed-coordinate table of an asset type whose cell is in *)
(* the grid and formats to a non-empty string.                             *)
(***************************************************************************)
FixedCodesIn(data) == {code \in DOMAIN data : code[3] \in {"SAL", "PURCH"}}

FixedReadable(grid, type) ==
  {j \in FixedOfType(type) :
     /\ CellInGrid(grid, fixed_mappings[j].row, fixed_mappings[j].col)
     /\ preserve_number_formatting(
          grid[fixed_mappings[j].row + 1][fixed_mappings[j].col + 1]) # << >>}

(***************************************************************************)
(* C13 as stated: the fixed-coordinate table holds 30 entries per asset    *)
(* type, 15 categories times sales and purchases, each with column index   *)
(* 4, and the fixed-coordinate loop reads exactly the entries of the       *)
(* file's asset type.                                                      *)
(***************************************************************************)
C13_AsStated ==
  /\ \A type \in {"ETF", "REIT"} : Cardinality(FixedOfType(type)) = 30
  /\ Len(category_structure) = 15
  /\ \A j \in 1..Len(fixed_mappings) : fixed_mappings[j].col = 4
  /\ \A k \in Processed :
       IsSheet(k) =>
         FixedCodesIn(DataOf(k))
           = {fixed_mappings[j].code : j \in FixedReadable(GridOf(k), TypeOf(k))}

(***************************************************************************)
(* C13 as amended: the fixed-coordinate table holds 28 entries per asset   *)
(* type, one for each of the 14 categories and each of sales and           *)
(* purchases, each with column index 4, and the fixed-coordinate loop      *)
(* reads exactly the 28 entries of the file's asset type: the sales and    *)
(* purchases codes of a file's result are those of its asset type whose    *)
(* cell is in the grid and not blank.                                      *)
(***************************************************************************)
C13_FixedTable ==
  /\ \A type \in {"ETF", "REIT"} :
       /\ Cardinality(FixedOfType(type)) = 28
       /\ {fixed_mappings[j].code : j \in FixedOfType(type)}
            = {<<"JTMD", type, metric, category_structure[c].key, "M">> :
                 metric \in {"SAL", "PURCH"}, c \in 1..Len(category_structure)}
  /\ Len(category_structure) = 14
  /\ Len(fixed_mappings) = 56
  /\ \A j \in 1..Len(fixed_mappings) : fixed_mappings[j].col = 4
  /\ \A k \in Processed :
       IsSheet(k) =>
         FixedCodesIn(DataOf(k))
           = {fixed_mappings[j].code : j \in FixedReadable(GridOf(k), TypeOf(k))}

\* a file whose sheet holds a value at every fixed coordinate: all 28 codes
\* of its asset type are in its result, and none of the other type
C13_Witness ==
  \E k \in Processed :
     /\ IsSheet(k)
     /\ Cardinality(FixedCodesIn(DataOf(k))) = 28
     /\ \A code \in FixedCodesIn(DataOf(k)) : code[2] = TypeOf(k)

(***************************************************************************)
(* Support for C14 and C15: the handler of unexpected exceptions of        *)
(* run_download has run; the files downloaded during the call.             *)
(***************************************************************************)
HandlerRan == \E j \in 1..Len(log) : log[j].event = "unexpected_error"

NewFiles == {j \in 1..Len(fetched) : fetched[j].how = "new"}

C15_ExtractorOnlyAfterDownload ==
  /\ pc # "idle" =>
       /\ files_are_ready = "True"
       /\ main_pc \in {"extractor", "finished"}
       /\ log_file = [state |-> "saved", names |-> downloaded_files_log, written |-> TRUE]
  /\ (files_are_ready # "True" \/ main_pc = "exit") =>
       /\ pc = "idle"
       /\ results = << >>
       /\ all_data = EmptyDict
       /\ output_folder = EmptyDict

\* main has finished without calling the extractor: run_download returned
\* False after it had downloaded a file, which is in the directory
C15_Witness ==
  /\ main_pc = "finished"
  /\ files_are_ready = "False"
  /\ NewFiles # {}
  /\ excel_files # << >>
  /\ log_file.written
  /\ pc = "idle"
  /\ DOMAIN output_folder = {}

(***************************************************************************)
(* C16: whenever the input directory holds at least one candidate file,    *)
(* the dataset is not empty after the loop, every processed file leaving   *)
(* its period key, so that run never returns early: it writes the data     *)
(* file, then the metadata file, then the archive, and reaches its end     *)
(* with the three of them written, even when every file failed.            *)
(***************************************************************************)
AllOutputs == {"JTMD_DATA.csv", "JTMD_META.csv", "JTMD.zip"}

DigitValue(ch) == (CHOOSE k \in 1..Len(Digits) : Digits[k] = ch) - 1

WellFormedPeriod(period) ==
  /\ Len(period) = 7
  /\ \A j \in {1, 2, 3, 4, 6, 7} : IsDigit(period[j])
  /\ period[5] = "-"
  /\ 10 * DigitValue(period[6]) + DigitValue(period[7]) \in 1..12

C17_AsStated ==
  \A period \in DOMAIN all_data : WellFormedPeriod(period)

=============================================================================
